---------------------------- MODULE Spec2Model ----------------------------
(***************************************************************************)
(* Stately: the store (createStore), the middleware pipeline               *)
(* (applyMiddleware) and the history recorder (DevTools).                  *)
(*                                                                         *)
(* Objects (State, partial updates, payloads) are functions from a finite  *)
(* set of string keys to values; a key outside the DOMAIN is an absent     *)
(* property.  A JS Set of listeners is a duplicate-free sequence in        *)
(* insertion order (the order Set.prototype.forEach visits).               *)
(*                                                                         *)
(* The programs checked:                                                   *)
(*   Spec               a store built by createStore(options) and driven   *)
(*                      through its public surface;                        *)
(*   SpecRecorder       a DevTools instance driven directly, as the        *)
(*                      DevTools test-suite does;                          *)
(*   SpecEviction       a DevTools instance whose setMaxHistorySize is     *)
(*                      followed through its loop;                         *)
(*   SpecListeners      a store whose listeners call the store and the     *)
(*                      unsubscribe callables while they are notified;     *)
(*   SpecSubscriptions  a DevTools instance and the callables its          *)
(*                      subscribe returns;                                 *)
(*   SpecFaults         a store with a listener that throws;               *)
(*   SpecMiddleware     a store whose middleware keep closure state or     *)
(*                      call store.dispatch, and whose caller dispatches   *)
(*                      the action objects it holds.                       *)
(***************************************************************************)
EXTENDS Integers, Sequences, FiniteSets, TLC

VARIABLES
    state,          \* createStore: let state
    listeners,      \* createStore: const listeners = new Set()
    devTools,       \* the DevTools instance (its private fields)
    middleware,     \* options.middleware, in registration order
    dispatchChain,  \* the dispatch of the returned store (composed chain)
    unsubscribers,  \* unsubscribe callables the caller holds
    trace,          \* observable events of the last public call, in order
    lastCall,       \* the last setState/dispatch/record call and its arguments
    calls,          \* number of setState/dispatch/record calls made
    initialState,   \* the state the store was constructed with
    updates,        \* partial updates of the setState calls, in call order
    recorded,       \* <<action, state>> of every effective record call
    cleared,        \* Len(recorded) at the last clearHistory
    raised,         \* setMaxHistorySize raised the bound since the last clearHistory
    cancelled,      \* listeners whose unsubscribe callable ran after their last subscribe
    subscribes,     \* number of subscribe calls whose callable is told apart
    used,           \* the unsubscribe callables that have been called
    called,         \* the unsubscribe callable called last
    eviction,       \* a setMaxHistorySize call: where it stands in its while loop
    closures,       \* per middleware: calls of middleware(store, next), and the
                    \* variable the handler made last closes over
    objects         \* the action objects the caller holds and dispatches

vars == <<state, listeners, devTools, middleware, dispatchChain, unsubscribers,
          trace, lastCall, calls, initialState, updates, recorded, cleared, raised,
          cancelled, subscribes, used, called, eviction, closures, objects>>

(***************************************************************************)
(* Bounds of the model.                                                    *)
(***************************************************************************)
MaxCalls == 2        \* setState/dispatch calls per store behaviour
MaxRecords == 3      \* record calls per recorder behaviour
MaxSize == 2         \* setMaxHistorySize arguments are 0..MaxSize
MaxCount == 2        \* the counter of the test state stays in 0..MaxCount
MaxSubscribes == 3   \* subscribe calls per behaviour whose callables are told apart
MaxPasses == 1       \* notifying calls per behaviour of SpecListeners and SpecSubscriptions

(***************************************************************************)
(* Objects.                                                                *)
(***************************************************************************)
EmptyObject == [k \in {} |-> ""]

\* payload?: StateValue / timestamp?: number of an Action left out
NoPayload == "@undefined" :> ""
NoTimestamp == 0

\* two nested values of the TestState's user property
UserAnn == ("name" :> "ann") @@ ("age" :> "30")
UserBob == "name" :> "bob"

Min(a, b) == IF a < b THEN a ELSE b

\* {...a, ...b} with the nested values merged too: not what the code does
DeepMerge(a, b) ==
    [k \in DOMAIN a \cup DOMAIN b |->
        IF k \in DOMAIN b
        THEN IF k = "user" /\ k \in DOMAIN a
             THEN [j \in DOMAIN a[k] \cup DOMAIN b[k] |->
                      IF j \in DOMAIN b[k] THEN b[k][j] ELSE a[k][j]]
             ELSE b[k]
        ELSE a[k]]

\* { ...a, ...b }
ShallowMerge(a, b) ==
    [k \in DOMAIN a \cup DOMAIN b |-> IF k \in DOMAIN b THEN b[k] ELSE a[k]]

(***************************************************************************)
(* Events of the trace.  A listener event carries the arguments the        *)
(* listener was called with and what it would read from the getters        *)
(* during the call.                                                        *)
(***************************************************************************)
Event(ev, who, st, action, dt) ==
    [ev |-> ev, who |-> who, state |-> st, action |-> action,
     stateHistory |-> dt.stateHistory, actionHistory |-> dt.actionHistory]

(***************************************************************************)
(* DevTools.                                                               *)
(***************************************************************************)
DefaultMaxHistorySize == 100

\* constructor(options): enabled = options.enabled ?? NODE_ENV === 'development'
NewDevTools(enabledOption, nodeEnv) ==
    [enabled |-> IF enabledOption = "undefined"
                 THEN nodeEnv = "development"
                 ELSE enabledOption = "true",
     maxHistorySize |-> DefaultMaxHistorySize,
     stateHistory |-> <<>>,
     actionHistory |-> <<>>,
     listeners |-> <<>>]

\* Array.prototype.pop: drops the last element
Pop(array) == IF array = <<>> THEN array ELSE SubSeq(array, 1, Len(array) - 1)

\* Array.prototype.shift: drops the first element, a no-op on an empty array
Shift(array) == IF array = <<>> THEN array ELSE Tail(array)

\* Set.prototype.add / Set.prototype.delete
SetAdd(set, x) == IF \E i \in 1..Len(set) : set[i] = x THEN set ELSE Append(set, x)
SetDelete(set, x) == SelectSeq(set, LAMBDA y : y # x)

\* Set.prototype.delete while a forEach is under way: the entry's slot is
\* emptied, so the slots of the other entries keep their positions
Empty == "@empty"
\* a delete that closes the gap at once, as Array.prototype.splice does
SetDeleteShifting(set, x) == SelectSeq(set, LAMBDA y : y # x)
SetDeleteEntry(set, x) == [i \in 1..Len(set) |-> IF set[i] = x THEN Empty ELSE set[i]]
\* the entries of the Set, the emptied slots dropped
SetEntries(set) == SelectSeq(set, LAMBDA y : y # Empty)

\* the world an operation runs in: the recorder, and the trace it leaves
RECURSIVE DevToolsForEach(_, _, _, _, _)
DevToolsForEach(w, i, type, st, action) ==
    IF i > Len(w.devTools.listeners) THEN w
    ELSE DevToolsForEach(
            [w EXCEPT !.trace = Append(@,
                Event(type, w.devTools.listeners[i], st, action, w.devTools))],
            i + 1, type, st, action)

\* notifyListeners(type, state, action)
NotifyListeners(w, type, st, action) == DevToolsForEach(w, 1, type, st, action)

\* record that notifies before it evicts
RecordNotifyFirst(w, action, st) ==
    IF ~w.devTools.enabled THEN w
    ELSE LET pushed == [w EXCEPT !.devTools.stateHistory = Append(@, st),
                                 !.devTools.actionHistory = Append(@, action)]
             stored == [pushed EXCEPT !.trace = Append(@, Event("record", "", st, action, pushed.devTools))]
             told == NotifyListeners(stored, "STATE_CHANGED", st, action)
         IN IF Len(told.devTools.stateHistory) > told.devTools.maxHistorySize
            THEN [told EXCEPT !.devTools.stateHistory = Shift(@),
                              !.devTools.actionHistory = Shift(@)]
            ELSE told

\* record with the size check made before the push: one entry too many is kept
RecordLate(w, action, st) ==
    IF ~w.devTools.enabled THEN w
    ELSE LET full == Len(w.devTools.stateHistory) > w.devTools.maxHistorySize
             kept == IF full
                     THEN [w EXCEPT !.devTools.stateHistory = Shift(@),
                                    !.devTools.actionHistory = Shift(@)]
                     ELSE w
             pushed == [kept EXCEPT !.devTools.stateHistory = Append(@, st),
                                    !.devTools.actionHistory = Append(@, action)]
             stored == [pushed EXCEPT !.trace = Append(@, Event("record", "", st, action, pushed.devTools))]
         IN NotifyListeners(stored, "STATE_CHANGED", st, action)

\* record(action, state)
Record(w, action, st) ==
    IF ~w.devTools.enabled THEN w
    ELSE LET pushed == [w EXCEPT !.devTools.stateHistory = Append(@, st),
                                 !.devTools.actionHistory = Append(@, action)]
             kept == IF Len(pushed.devTools.stateHistory) > pushed.devTools.maxHistorySize
                     THEN [pushed EXCEPT !.devTools.stateHistory = Shift(@),
                                         !.devTools.actionHistory = Shift(@)]
                     ELSE pushed
             stored == [kept EXCEPT !.trace = Append(@, Event("record", "", st, action, kept.devTools))]
         IN NotifyListeners(stored, "STATE_CHANGED", st, action)


\* subscribe that registers the listener whether or not the recorder is enabled
SubscribeOfAlways(dt, listener) == [dt EXCEPT !.listeners = SetAdd(@, listener)]

\* subscribe(listener): if (!this.enabled) return () => {}; this.listeners.add(listener)
SubscribeOf(dt, listener) ==
    IF ~dt.enabled THEN dt ELSE [dt EXCEPT !.listeners = SetAdd(@, listener)]

\* getStateHistory() / getActionHistory(): copies of the arrays
GetStateHistory(dt) == dt.stateHistory
GetActionHistory(dt) == dt.actionHistory

\* the "not found" value of getStateAt / getActionAt
Null == "@null" :> ""

\* getStateAt that counts from the oldest entry: stateHistory[index]
GetStateAtForward(dt, index) ==
    IF index < 0 \/ index >= Len(dt.stateHistory) THEN Null
    ELSE dt.stateHistory[index + 1]

\* getStateAt(index): index 0 is the most recent entry
GetStateAt(dt, index) ==
    IF index < 0 \/ index >= Len(dt.stateHistory) THEN Null
    ELSE dt.stateHistory[(Len(dt.stateHistory) - 1 - index) + 1]

\* getActionAt(index)
GetActionAt(dt, index) ==
    IF index < 0 \/ index >= Len(dt.actionHistory) THEN Null
    ELSE dt.actionHistory[(Len(dt.actionHistory) - 1 - index) + 1]

\* clearHistory()
ClearHistoryOf(dt) == [dt EXCEPT !.stateHistory = <<>>, !.actionHistory = <<>>]

\* while (stateHistory.length > size) { stateHistory.shift(); actionHistory.shift() }
RECURSIVE EvictWhile(_, _)
EvictWhile(dt, size) ==
    IF Len(dt.stateHistory) > size
    THEN EvictWhile([dt EXCEPT !.stateHistory = Shift(@), !.actionHistory = Shift(@)], size)
    ELSE dt

\* setMaxHistorySize(size)
SetMaxHistorySizeOf(dt, size) == EvictWhile([dt EXCEPT !.maxHistorySize = size], size)

\* setEnabled that also drops the history
SetEnabledClearing(dt, enabled) ==
    [dt EXCEPT !.enabled = enabled, !.stateHistory = <<>>, !.actionHistory = <<>>]

\* setEnabled(enabled)
SetEnabledOf(dt, enabled) == [dt EXCEPT !.enabled = enabled]

(***************************************************************************)
(* The calls a behaviour is made of.                                       *)
(***************************************************************************)
NoAction == [type |-> "", payload |-> NoPayload, timestamp |-> NoTimestamp]

\* updater: Partial<T> | ((state: T) => Partial<T>)
ObjectUpdater(object) == [fn |-> "none", object |-> object]
FunctionUpdater(fn) == [fn |-> fn, object |-> EmptyObject]

Call(op, updater, object, action) ==
    [op |-> op, updater |-> updater, object |-> object, action |-> action]

OtherCall == Call("other", "none", EmptyObject, NoAction)

\* the world a public call starts in: the trace is that of this call alone
\* thrown: an exception is propagating to the caller
World == [state |-> state, listeners |-> listeners, devTools |-> devTools, trace |-> <<>>,
          thrown |-> FALSE, closures |-> closures, objects |-> objects]

\* the variables after a call that left the world w
Becomes(w) ==
    /\ state' = w.state
    /\ listeners' = SetEntries(w.listeners)
    /\ devTools' = w.devTools
    /\ trace' = w.trace
    /\ closures' = w.closures
    /\ objects' = w.objects

\* the <<action, state>> log grows by the record calls that were not dropped
Logged(w, log) ==
    LET added == SelectSeq(w.trace, LAMBDA e : e.ev = "record")
    IN log \o [i \in 1..Len(added) |-> <<added[i].action, added[i].state>>]

\* the callable of a disabled recorder's subscribe closes over nothing
Unsubscriber(of, listener, live) ==
    [of |-> of, listener |-> IF live THEN listener ELSE "", live |-> live]

\* the callable of the serial-th subscribe call: a closure of its own, given
\* for a listener, that deletes the listener it closes over (if any)
Handle(of, listener, live, serial) ==
    [of |-> of, listener |-> IF live THEN listener ELSE "", live |-> live,
     given |-> listener, serial |-> serial]
NoHandle == Handle("", "", FALSE, 0)

\* no setMaxHistorySize call is under way
NoEviction == [pc |-> "idle", size |-> 0]

\* the caller holds no action object: it dispatches object literals
NoObjects == [r \in {} |-> NoAction]

\* no middleware(store, next) has been called
NoClosures(ms) == [m \in {ms[i] : i \in 1..Len(ms)} |-> [made |-> 0, seen |-> 0]]

(***************************************************************************)
(* SpecRecorder: a DevTools instance driven directly.                      *)
(***************************************************************************)
RecorderListeners == {"D1", "D2"}

\* the actions and states the DevTools tests record
MockAction == [type |-> "TEST_ACTION", payload |-> "test" :> "data", timestamp |-> NoTimestamp]
AnotherAction == [MockAction EXCEPT !.type = "ANOTHER_ACTION"]
RecordInputs == {<<MockAction, "count" :> 0>>, <<MockAction, "count" :> 1>>,
                 <<AnotherAction, "count" :> 0>>}

StoreIdle0 ==
    UNCHANGED <<state, listeners, middleware, dispatchChain, initialState, updates,
                subscribes, used, called, closures, objects>>
StoreIdle == StoreIdle0 /\ UNCHANGED eviction

InitRecorder ==
    /\ \E enabledOption \in {"true", "false", "undefined"},
          nodeEnv \in {"development", "production"} :
          devTools = NewDevTools(enabledOption, nodeEnv)
    /\ state = EmptyObject
    /\ listeners = <<>>
    /\ middleware = <<>>
    /\ dispatchChain = <<>>
    /\ unsubscribers = {}
    /\ trace = <<>>
    /\ lastCall = Call("new", "none", EmptyObject, NoAction)
    /\ calls = 0
    /\ initialState = EmptyObject
    /\ updates = <<>>
    /\ recorded = <<>>
    /\ cleared = 0
    /\ raised = FALSE
    /\ cancelled = {}
    /\ subscribes = 0
    /\ used = {}
    /\ called = NoHandle
    /\ eviction = NoEviction
    /\ closures = NoClosures(middleware)
    /\ objects = NoObjects

DevToolsRecord(action, st) ==
    /\ calls < MaxRecords
    /\ LET w == Record(World, action, st)
       IN /\ Becomes(w)
          /\ recorded' = Logged(w, recorded)
    /\ calls' = calls + 1
    /\ lastCall' = Call("record", "none", st, action)
    /\ StoreIdle
    /\ UNCHANGED <<unsubscribers, cleared, raised, cancelled>>

\* subscribe(listener): a disabled recorder hands out () => {}
DevToolsSubscribe(listener) ==
    /\ devTools' = SubscribeOf(devTools, listener)
    /\ unsubscribers' = unsubscribers \cup
          {Unsubscriber("devTools", listener, devTools.enabled)}
    /\ cancelled' = IF devTools.enabled THEN cancelled \ {listener} ELSE cancelled
    /\ trace' = <<>>
    /\ lastCall' = OtherCall
    /\ StoreIdle
    /\ UNCHANGED <<calls, recorded, cleared, raised>>

\* the callable subscribe returned: () => this.listeners.delete(listener), or () => {}
DevToolsUnsubscribe(u) ==
    /\ u.of = "devTools"
    /\ devTools' = IF u.live THEN [devTools EXCEPT !.listeners = SetDelete(@, u.listener)]
                   ELSE devTools
    /\ cancelled' = IF u.live THEN cancelled \cup {u.listener} ELSE cancelled
    /\ trace' = <<>>
    /\ lastCall' = OtherCall
    /\ StoreIdle
    /\ UNCHANGED <<unsubscribers, calls, recorded, cleared, raised>>

DevToolsClearHistory ==
    /\ devTools' = ClearHistoryOf(devTools)
    /\ cleared' = Len(recorded)
    /\ raised' = FALSE
    /\ trace' = <<>>
    /\ lastCall' = OtherCall
    /\ StoreIdle
    /\ UNCHANGED <<unsubscribers, calls, recorded, cancelled>>

DevToolsSetMaxHistorySize(size) ==
    /\ devTools' = SetMaxHistorySizeOf(devTools, size)
    /\ raised' = (raised \/ size > devTools.maxHistorySize)
    /\ trace' = <<>>
    /\ lastCall' = OtherCall
    /\ StoreIdle
    /\ UNCHANGED <<unsubscribers, calls, recorded, cleared, cancelled>>

DevToolsSetEnabled(enabled) ==
    /\ devTools' = SetEnabledOf(devTools, enabled)
    /\ trace' = <<>>
    /\ lastCall' = OtherCall
    /\ StoreIdle
    /\ UNCHANGED <<unsubscribers, calls, recorded, cleared, raised, cancelled>>

NextRecorder ==
    \/ \E input \in RecordInputs : DevToolsRecord(input[1], input[2])
    \/ \E listener \in RecorderListeners : DevToolsSubscribe(listener)
    \/ \E u \in unsubscribers : DevToolsUnsubscribe(u)
    \/ DevToolsClearHistory
    \/ \E size \in 0..MaxSize : DevToolsSetMaxHistorySize(size)
    \/ \E enabled \in BOOLEAN : DevToolsSetEnabled(enabled)

SpecRecorder == InitRecorder /\ [][NextRecorder]_vars

(***************************************************************************)
(* SpecEviction: a DevTools instance whose setMaxHistorySize is followed   *)
(* through its loop, one pass at a time, for sizes below zero too.  No     *)
(* other call starts before the one under way has returned.                *)
(***************************************************************************)
\* setMaxHistorySize(size), up to the first test of the loop condition
CallSetMaxHistorySize(size) ==
    /\ eviction.pc = "idle"
    /\ devTools' = [devTools EXCEPT !.maxHistorySize = size]
    /\ eviction' = [pc |-> "while", size |-> size]
    /\ raised' = (raised \/ size > devTools.maxHistorySize)
    /\ trace' = <<>>
    /\ lastCall' = OtherCall
    /\ StoreIdle0
    /\ UNCHANGED <<unsubscribers, calls, recorded, cleared, cancelled>>

\* while (this.stateHistory.length > size): the condition holds, the body runs
EvictionPass ==
    /\ eviction.pc = "while"
    /\ Len(devTools.stateHistory) > eviction.size
    /\ devTools' = [devTools EXCEPT !.stateHistory = Shift(@),
                                    !.actionHistory = Shift(@)]
    /\ StoreIdle
    /\ UNCHANGED <<unsubscribers, trace, lastCall, calls, recorded, cleared, raised,
                   cancelled>>

\* the condition fails: the call returns
EvictionReturns ==
    /\ eviction.pc = "while"
    /\ ~(Len(devTools.stateHistory) > eviction.size)
    /\ eviction' = [eviction EXCEPT !.pc = "idle"]
    /\ StoreIdle0
    /\ UNCHANGED <<devTools, unsubscribers, trace, lastCall, calls, recorded, cleared,
                   raised, cancelled>>

NextEviction ==
    \/ \E input \in RecordInputs :
          eviction.pc = "idle" /\ DevToolsRecord(input[1], input[2])
    \/ \E size \in (0 - 1)..MaxSize : CallSetMaxHistorySize(size)
    \/ EvictionPass
    \/ EvictionReturns

SpecEviction == InitRecorder /\ [][NextEviction]_vars

(***************************************************************************)
(* The store.                                                              *)
(***************************************************************************)
\* The listeners callers subscribe.  L1 and L2 only observe;
\*   setter   (state) => { if (state.count === 1) store.setState({ count: 2 }) }
\*   leaver   () => unsubscribeLeaver()      (its own unsubscribe callable)
\*   remover  () => unsubscribeL2()          (the unsubscribe callable of L2)
\*   thrower  () => { throw new Error() }
\* The clock does not advance during a call: a nested setState reads the
\* time of the action being delivered.
RECURSIVE SetState(_, _, _)
\* a listener called with the partial update of a setState: listener(nextState, action)
InvokeWithPartial(w, listener, action) ==
    LET given == IF action.type = "SET_STATE" THEN action.payload ELSE w.state
        entered == [w EXCEPT !.trace = Append(@,
                       Event("listener", listener, given, action, w.devTools))]
    IN CASE listener = "setter" /\ "count" \in DOMAIN w.state /\ w.state["count"] = 1 ->
                SetState(entered, [fn |-> "none", object |-> "count" :> 2], action.timestamp)
         [] listener = "leaver" ->
                [entered EXCEPT !.listeners = SetDeleteEntry(@, "leaver")]
         [] listener = "remover" ->
                [entered EXCEPT !.listeners = SetDeleteEntry(@, "L2")]
         [] OTHER -> entered

\* listener(state, action)
Invoke(w, listener, action) ==
    LET entered == [w EXCEPT !.trace = Append(@,
                       Event("listener", listener, w.state, action, w.devTools))]
    IN CASE listener = "setter" /\ "count" \in DOMAIN w.state /\ w.state["count"] = 1 ->
                SetState(entered, [fn |-> "none", object |-> "count" :> 2], action.timestamp)
         [] listener = "leaver" ->
                [entered EXCEPT !.listeners = SetDeleteEntry(@, "leaver")]
         [] listener = "remover" ->
                [entered EXCEPT !.listeners = SetDeleteEntry(@, "L2")]
         [] listener = "thrower" ->
                [entered EXCEPT !.thrown = TRUE,
                                !.trace = Append(@,
                                   Event("throw", listener, w.state, action, w.devTools))]
         [] OTHER -> entered

\* listeners.forEach(listener => listener(state, action)): every call reads
\* the store's state variable as it is at that moment; forEach visits the
\* slots in insertion order and passes over the emptied ones; an exception
\* a listener throws is not caught: it ends the pass and leaves the call
RECURSIVE ForEachListener(_, _, _)
ForEachListener(w, i, action) ==
    IF i > Len(w.listeners) \/ w.thrown THEN w
    ELSE IF w.listeners[i] = Empty THEN ForEachListener(w, i + 1, action)
    ELSE ForEachListener(Invoke(w, w.listeners[i], action), i + 1, action)

\* the updater functions callers pass: state => ({ count: state.count + 1 })
ApplyUpdater(fn, st) == "count" :> (st["count"] + 1)

\* setState whose action carries the merged state as payload
SetStatePayloadState(w, updater, now) ==
    LET nextState == IF updater.fn # "none" THEN ApplyUpdater(updater.fn, w.state)
                     ELSE updater.object
        merged == [w EXCEPT !.state = ShallowMerge(@, nextState)]
        action == [type |-> "SET_STATE", payload |-> merged.state, timestamp |-> now]
    IN ForEachListener(Record(merged, action, merged.state), 1, action)

\* setState that calls the listeners before it records
SetStateNotifyFirst(w, updater, now) ==
    LET nextState == IF updater.fn # "none" THEN ApplyUpdater(updater.fn, w.state)
                     ELSE updater.object
        merged == [w EXCEPT !.state = ShallowMerge(@, nextState)]
        action == [type |-> "SET_STATE", payload |-> nextState, timestamp |-> now]
    IN Record(ForEachListener(merged, 1, action), action, merged.state)

\* setState that assigns the store's state once the listeners have returned
SetStateCommitLast(w, updater, now) ==
    LET nextState == IF updater.fn # "none" THEN ApplyUpdater(updater.fn, w.state)
                     ELSE updater.object
        merged == [w EXCEPT !.state = ShallowMerge(@, nextState)]
        action == [type |-> "SET_STATE", payload |-> nextState, timestamp |-> now]
        left == ForEachListener(Record(merged, action, merged.state), 1, action)
    IN IF left.thrown THEN [left EXCEPT !.state = w.state] ELSE left

\* setState(updater)
SetState(w, updater, now) ==
    LET nextState == IF updater.fn # "none" THEN ApplyUpdater(updater.fn, w.state)
                     ELSE updater.object
        merged == [w EXCEPT !.state = ShallowMerge(@, nextState)]
        action == [type |-> "SET_STATE", payload |-> nextState, timestamp |-> now]
    IN ForEachListener(Record(merged, action, merged.state), 1, action)

\* dispatch that folds the payload into the state, as a reducer would
DispatchReducing(w, action, now) ==
    LET stamped == [action EXCEPT !.timestamp = now]
        reduced == [w EXCEPT !.state = ShallowMerge(@, stamped.payload),
                             !.trace = Append(@,
                                Event("dispatch", "", w.state, stamped, w.devTools))]
    IN ForEachListener(Record(reduced, stamped, reduced.state), 1, stamped)

\* dispatch that calls the listeners before it records
DispatchNotifyFirst(w, action, now) ==
    LET stamped == [action EXCEPT !.timestamp = now]
        entered == [w EXCEPT !.trace = Append(@,
                       Event("dispatch", "", w.state, stamped, w.devTools))]
    IN Record(ForEachListener(entered, 1, stamped), stamped, entered.state)

\* action.timestamp = Date.now() on an object: the history entries that are
\* this object (record pushed the reference) show the new timestamp too
Restamp(history, action, now) ==
    [i \in 1..Len(history) |->
        IF /\ "ref" \in DOMAIN action
           /\ "ref" \in DOMAIN history[i]
           /\ history[i].ref = action.ref
        THEN [history[i] EXCEPT !.timestamp = now]
        ELSE history[i]]

\* dispatch(action) of the raw store: an action with a ref field is an object
\* the caller holds, one without is an object literal
Dispatch(w, action, now) ==
    LET stamped == [action EXCEPT !.timestamp = now]
        entered == [w EXCEPT !.objects = IF "ref" \in DOMAIN action
                                         THEN [@ EXCEPT ![action.ref] = stamped]
                                         ELSE @,
                             !.devTools.actionHistory = Restamp(@, action, now),
                             !.trace = Append(@,
                                Event("dispatch", "", w.state, stamped, w.devTools))]
    IN ForEachListener(Record(entered, stamped, entered.state), 1, stamped)

\* a subscribe that keeps its listeners in an array: listeners.push(listener)
SubscribePush(set, listener) == Append(set, listener)
\* subscribe(listener) and the callable it returns
Subscribe(set, listener) == SetAdd(set, listener)
\* an unsubscribe callable that empties the Set: listeners.clear()
UnsubscribeAll(set, listener) == <<>>
\* an unsubscribe callable that deletes nothing
UnsubscribeNothing(set, listener) == set
Unsubscribe(set, listener) == SetDelete(set, listener)

(***************************************************************************)
(* The middleware pipeline.  A composed dispatch is the sequence of the    *)
(* middleware its wrappers call, outermost first; the raw dispatch is the  *)
(* empty sequence.                                                         *)
(***************************************************************************)
\* "logger" is createLogger(); "audit" and "tap" call next(action); "block" never does;
\*   counter  (store, next) => { let seen = 0
\*                               return action => { seen += 1; next(action) } }
\*   direct   (store, next) => action => { store.dispatch(action) }
Forwards(m) == m \in {"logger", "audit", "tap", "counter"}

\* (action) => { const nextHandler = middleware(store, next); nextHandler(action); }
Wrap(next, m) == <<m>> \o next

\* middlewares.reduce: folds from the first middleware to the last
RECURSIVE ReduceLeft(_, _, _)
ReduceLeft(ms, i, acc) ==
    IF i > Len(ms) THEN acc ELSE ReduceLeft(ms, i + 1, Wrap(acc, ms[i]))

\* middlewares.reduceRight: folds from the last middleware to the first
RECURSIVE ReduceRight(_, _, _)
ReduceRight(ms, i, acc) ==
    IF i = 0 THEN acc ELSE ReduceRight(ms, i - 1, Wrap(acc, ms[i]))

ApplyMiddlewareLeft(ms) == ReduceLeft(ms, 1, <<>>)

\* a returned store whose setState passes the middleware as dispatch does
ReturnedSetStateWrapped(w, chain, updater, now) ==
    SetState([w EXCEPT !.trace = @ \o
                 [i \in 1..Len(chain) |->
                     Event("middleware", chain[i], w.state, NoAction, w.devTools)]],
             updater, now)

\* { ...store, dispatch }: the setState of the returned store is the raw
\* store's member, whatever the chain is
ReturnedSetState(w, chain, updater, now) == SetState(w, updater, now)

\* applyMiddleware(...middlewares)(store).dispatch
ApplyMiddleware(ms) == ReduceRight(ms, Len(ms), <<>>)

\* a chain in which a middleware that does not call next is skipped over
RECURSIVE RunChainThrough(_, _, _, _)
RunChainThrough(w, chain, action, now) ==
    IF chain = <<>> THEN Dispatch(w, action, now)
    ELSE LET m == Head(chain)
             entered == [w EXCEPT !.trace = Append(@,
                            Event("middleware", m, w.state, action, w.devTools))]
             returned == RunChainThrough(entered, Tail(chain), action, now)
         IN IF m = "logger"
            THEN [returned EXCEPT !.trace = Append(@,
                     Event("logAction", m, returned.state, action, returned.devTools))]
            ELSE returned

RECURSIVE RunChain(_, _, _, _)
\* a middleware handed a store whose dispatch is its own next
StoreDispatchIsNext(w, chain, action, now) == RunChain(w, Tail(chain), action, now)

\* store.dispatch(action) called by the middleware at the head of chain: the
\* store it was handed is the one applyMiddleware was given, the raw store
MiddlewareStoreDispatch(w, chain, action, now) == Dispatch(w, action, now)

\* the composed dispatch called with an action: each wrapper calls
\* middleware(store, next), which makes a handler with variables of its own,
\* and then that handler
RunChain(w, chain, action, now) ==
    IF chain = <<>> THEN Dispatch(w, action, now)
    ELSE LET m == Head(chain)
             made == [w EXCEPT !.closures[m] = [made |-> @.made + 1, seen |-> 0]]
             entered == [made EXCEPT
                            !.closures[m].seen = IF m = "counter" THEN @ + 1 ELSE @,
                            !.trace = Append(@,
                               Event("middleware", m, w.state, action, w.devTools))]
         IN IF m = "direct" THEN MiddlewareStoreDispatch(entered, chain, action, now)
            ELSE IF ~Forwards(m) THEN entered
            ELSE LET returned == RunChain(entered, Tail(chain), action, now)
                 IN IF m = "logger" /\ ~returned.thrown
                    THEN [returned EXCEPT !.trace = Append(@,
                             Event("logAction", m, returned.state, action, returned.devTools))]
                    ELSE returned

(***************************************************************************)
(* Spec: a store built by createStore(options).                            *)
(***************************************************************************)
StoreListeners == {"L1", "L2"}
Timestamps == {1, 2}
Undefined == "@undefined" :> ""

InitialStateOptions ==
    {Undefined, "count" :> 0, ("count" :> 0) @@ ("user" :> UserAnn)}
MiddlewareOptions ==
    {<<>>, <<"logger">>, <<"block">>, <<"logger", "audit">>, <<"audit", "logger">>,
     <<"audit", "block">>, <<"block", "audit">>, <<"tap", "logger", "audit">>,
     <<"audit", "logger", "block">>}
PartialUpdates ==
    {"count" :> 1, "user" :> UserBob, ("count" :> 2) @@ ("user" :> UserAnn)}
Updaters ==
    {ObjectUpdater(p) : p \in PartialUpdates} \cup {FunctionUpdater("increment")}
\* { type: '' }: an action whose type is empty
UntypedAction == [type |-> "", payload |-> NoPayload, timestamp |-> NoTimestamp]
DispatchedActions ==
    {[type |-> "INCREMENT", payload |-> "by" :> "1", timestamp |-> NoTimestamp],
     [type |-> "X", payload |-> NoPayload, timestamp |-> 1],
     UntypedAction}

Init ==
    /\ \E initialStateOption \in InitialStateOptions :
          initialState = IF initialStateOption = Undefined THEN EmptyObject
                         ELSE initialStateOption
    /\ state = initialState
    /\ listeners = <<>>
    /\ \E devToolsOption \in {"true", "false", "undefined"},
          nodeEnv \in {"development", "production"} :
          devTools = NewDevTools(devToolsOption, nodeEnv)
    /\ middleware \in MiddlewareOptions
    /\ dispatchChain = IF Len(middleware) > 0 THEN ApplyMiddleware(middleware) ELSE <<>>
    /\ unsubscribers = {}
    /\ trace = <<>>
    /\ lastCall = Call("new", "none", EmptyObject, NoAction)
    /\ calls = 0
    /\ updates = <<>>
    /\ recorded = <<>>
    /\ cleared = 0
    /\ raised = FALSE
    /\ cancelled = {}
    /\ subscribes = 0
    /\ used = {}
    /\ called = NoHandle
    /\ eviction = NoEviction
    /\ closures = NoClosures(middleware)
    /\ objects = NoObjects

Fixed == UNCHANGED <<middleware, dispatchChain, initialState, cleared, raised,
                     subscribes, used, called, eviction>>

StoreSetState(updater, now) ==
    /\ calls < MaxCalls
    /\ updater.fn # "none" => ("count" \in DOMAIN state /\ state["count"] < MaxCount)
    /\ LET w == ReturnedSetState(World, dispatchChain, updater, now)
       IN /\ Becomes(w)
          /\ recorded' = Logged(w, recorded)
    /\ updates' = Append(updates, IF updater.fn # "none"
                                  THEN ApplyUpdater(updater.fn, state)
                                  ELSE updater.object)
    /\ calls' = calls + 1
    /\ lastCall' = Call("setState", updater.fn, updater.object, NoAction)
    /\ Fixed
    /\ UNCHANGED <<unsubscribers, cancelled>>

StoreDispatch(action, now) ==
    /\ calls < MaxCalls
    /\ LET w == RunChain(World, dispatchChain, action, now)
       IN /\ Becomes(w)
          /\ recorded' = Logged(w, recorded)
    /\ calls' = calls + 1
    /\ lastCall' = Call("dispatch", "none", EmptyObject, action)
    /\ Fixed
    /\ UNCHANGED <<unsubscribers, updates, cancelled>>

StoreSubscribe(listener) ==
    /\ listeners' = Subscribe(listeners, listener)
    /\ unsubscribers' = unsubscribers \cup {Unsubscriber("store", listener, TRUE)}
    /\ cancelled' = cancelled \ {listener}
    /\ trace' = <<>>
    /\ lastCall' = OtherCall
    /\ Fixed
    /\ UNCHANGED <<state, devTools, calls, updates, recorded, closures, objects>>

StoreUnsubscribe(u) ==
    /\ u.of = "store"
    /\ listeners' = Unsubscribe(listeners, u.listener)
    /\ cancelled' = cancelled \cup {u.listener}
    /\ trace' = <<>>
    /\ lastCall' = OtherCall
    /\ Fixed
    /\ UNCHANGED <<state, devTools, unsubscribers, calls, updates, recorded, closures,
                   objects>>

Next ==
    \/ \E updater \in Updaters, now \in Timestamps : StoreSetState(updater, now)
    \/ \E action \in DispatchedActions, now \in Timestamps : StoreDispatch(action, now)
    \/ \E listener \in StoreListeners : StoreSubscribe(listener)
    \/ \E u \in unsubscribers : StoreUnsubscribe(u)

Spec == Init /\ [][Next]_vars

(***************************************************************************)
(* SpecListeners: a store without middleware whose listeners may call the  *)
(* store and the unsubscribe callables during their notification; every    *)
(* subscribe call returns a callable of its own.  The clock reads 1        *)
(* throughout.                                                             *)
(***************************************************************************)
ListenerPool == {"L2", "setter", "leaver", "remover"}
CounterUpdaters == {ObjectUpdater("count" :> 1), FunctionUpdater("increment")}
IncrementAction == [type |-> "INCREMENT", payload |-> "by" :> "1", timestamp |-> NoTimestamp]

InitListeners ==
    /\ initialState = ("count" :> 0) @@ ("user" :> UserAnn)
    /\ state = initialState
    /\ listeners = <<>>
    /\ \E devToolsOption \in {"true", "false"} :
          devTools = NewDevTools(devToolsOption, "production")
    /\ middleware = <<>>
    /\ dispatchChain = <<>>
    /\ unsubscribers = {}
    /\ trace = <<>>
    /\ lastCall = Call("new", "none", EmptyObject, NoAction)
    /\ calls = 0
    /\ updates = <<>>
    /\ recorded = <<>>
    /\ cleared = 0
    /\ raised = FALSE
    /\ cancelled = {}
    /\ subscribes = 0
    /\ used = {}
    /\ called = NoHandle
    /\ eviction = NoEviction
    /\ closures = NoClosures(middleware)
    /\ objects = NoObjects

\* const unsubscribe = store.subscribe(listener)
SubscribeListener(listener) ==
    /\ subscribes < MaxSubscribes
    /\ listeners' = Subscribe(listeners, listener)
    /\ subscribes' = subscribes + 1
    /\ unsubscribers' = unsubscribers \cup {Handle("store", listener, TRUE, subscribes + 1)}
    /\ cancelled' = cancelled \ {listener}
    /\ trace' = <<>>
    /\ lastCall' = OtherCall
    /\ UNCHANGED <<state, devTools, middleware, dispatchChain, calls, initialState,
                   updates, recorded, cleared, raised, used, called, eviction, closures, objects>>

\* unsubscribe(): a callable a subscribe call of the store or of the recorder returned
CallUnsubscribe(u) ==
    /\ listeners' = IF u.of = "store" THEN Unsubscribe(listeners, u.listener)
                    ELSE listeners
    /\ devTools' = IF u.of = "devTools" /\ u.live
                   THEN [devTools EXCEPT !.listeners = SetDelete(@, u.listener)]
                   ELSE devTools
    /\ cancelled' = IF u.live THEN cancelled \cup {u.listener} ELSE cancelled
    /\ used' = used \cup {u}
    /\ called' = u
    /\ trace' = <<>>
    /\ lastCall' = Call("unsubscribe", "none", EmptyObject, NoAction)
    /\ UNCHANGED <<state, middleware, dispatchChain, unsubscribers, calls, initialState,
                   updates, recorded, cleared, raised, subscribes, eviction, closures, objects>>

NextListeners ==
    \/ \E updater \in CounterUpdaters :
          calls < MaxPasses /\ StoreSetState(updater, 1)
    \/ calls < MaxPasses /\ StoreDispatch(IncrementAction, 1)
    \/ \E listener \in ListenerPool : SubscribeListener(listener)
    \/ \E u \in unsubscribers : CallUnsubscribe(u)

SpecListeners == InitListeners /\ [][NextListeners]_vars

(***************************************************************************)
(* SpecFaults: the same store with a listener that throws among its        *)
(* listeners.  The caller catches what a call throws and goes on calling.  *)
(***************************************************************************)
FaultyPool == {"L2", "setter", "thrower"}

NextFaults ==
    \/ \E updater \in CounterUpdaters : StoreSetState(updater, 1)
    \/ StoreDispatch(IncrementAction, 1)
    \/ \E listener \in FaultyPool : SubscribeListener(listener)
    \/ \E u \in unsubscribers : CallUnsubscribe(u)

SpecFaults == InitListeners /\ [][NextFaults]_vars

(***************************************************************************)
(* SpecMiddleware: a store whose middleware keep a variable in their       *)
(* closure or call store.dispatch, and a caller that holds its action      *)
(* objects and dispatches them again and again.                            *)
(***************************************************************************)
StatefulMiddlewareOptions ==
    {<<"counter">>, <<"direct">>, <<"logger", "counter">>, <<"logger", "direct">>,
     <<"audit", "direct", "tap">>}

\* const ping = { type: 'PING' }; const pong = { type: 'PONG', payload: { n: 1 } }
HeldObjects ==
    ("ping" :> [type |-> "PING", payload |-> NoPayload, timestamp |-> NoTimestamp,
                ref |-> "ping"]) @@
    ("pong" :> [type |-> "PONG", payload |-> "n" :> 1, timestamp |-> NoTimestamp,
                ref |-> "pong"])

InitMiddleware ==
    /\ initialState = "count" :> 0
    /\ state = initialState
    /\ listeners = <<>>
    /\ \E devToolsOption \in {"true", "false"} :
          devTools = NewDevTools(devToolsOption, "production")
    /\ middleware \in StatefulMiddlewareOptions
    /\ dispatchChain = ApplyMiddleware(middleware)
    /\ unsubscribers = {}
    /\ trace = <<>>
    /\ lastCall = Call("new", "none", EmptyObject, NoAction)
    /\ calls = 0
    /\ updates = <<>>
    /\ recorded = <<>>
    /\ cleared = 0
    /\ raised = FALSE
    /\ cancelled = {}
    /\ subscribes = 0
    /\ used = {}
    /\ called = NoHandle
    /\ eviction = NoEviction
    /\ closures = NoClosures(middleware)
    /\ objects = HeldObjects

NextMiddleware ==
    \/ \E r \in DOMAIN objects, now \in Timestamps : StoreDispatch(objects[r], now)
    \/ \E now \in Timestamps : StoreSetState(ObjectUpdater("count" :> 1), now)
    \/ StoreSubscribe("L1")
    \/ \E u \in unsubscribers : StoreUnsubscribe(u)

SpecMiddleware == InitMiddleware /\ [][NextMiddleware]_vars

(***************************************************************************)
(* SpecSubscriptions: a DevTools instance whose subscribe calls each       *)
(* return a callable of its own, enabled and disabled in between.          *)
(***************************************************************************)
\* const unsubscribe = devTools.subscribe(listener)
RecorderSubscribe(listener) ==
    /\ subscribes < MaxSubscribes
    /\ devTools' = SubscribeOf(devTools, listener)
    /\ subscribes' = subscribes + 1
    /\ unsubscribers' = unsubscribers \cup
          {Handle("devTools", listener, devTools.enabled, subscribes + 1)}
    /\ cancelled' = IF devTools.enabled THEN cancelled \ {listener} ELSE cancelled
    /\ trace' = <<>>
    /\ lastCall' = OtherCall
    /\ UNCHANGED <<state, listeners, middleware, dispatchChain, calls, initialState,
                   updates, recorded, cleared, raised, used, called, eviction, closures, objects>>

NextSubscriptions ==
    \/ \E input \in RecordInputs :
          calls < MaxPasses /\ DevToolsRecord(input[1], input[2])
    \/ \E listener \in RecorderListeners : RecorderSubscribe(listener)
    \/ \E u \in unsubscribers : CallUnsubscribe(u)
    \/ \E enabled \in BOOLEAN : DevToolsSetEnabled(enabled)

SpecSubscriptions == InitRecorder /\ [][NextSubscriptions]_vars

(***************************************************************************)
(* Reading the trace of the last call.                                     *)
(***************************************************************************)
EventsOf(kinds) == SelectSeq(trace, LAMBDA e : e.ev \in kinds)
ListenerEvents == EventsOf({"listener"})
Subscribed == {listeners[i] : i \in 1..Len(listeners)}
TimesNotified(events, l) == Cardinality({i \in 1..Len(events) : events[i].who = l})
IsStoreCall == lastCall.op \in {"setState", "dispatch"}
\* the raw dispatch ran in the last call
RawDispatchRan == Len(EventsOf({"dispatch"})) > 0
MaxOf(S) == CHOOSE i \in S : \A j \in S : j <= i
Last(seq) == seq[Len(seq)]

\* a step that is a setState / dispatch / record call
SetStateStep == calls' = calls + 1 /\ lastCall'.op = "setState"
DispatchStep == calls' = calls + 1 /\ lastCall'.op = "dispatch"
RecordStep == calls' = calls + 1 /\ lastCall'.op = "record"

(***************************************************************************)
(* C1.  After any sequence of setState calls (object or function           *)
(* updaters), the state is the initial state shallow-merged with the       *)
(* partial updates in call order: its keys are those of the initial state  *)
(* and of the updates, a key some update holds has the whole value the     *)
(* last such update gave it, every other key keeps its initial value.      *)
(***************************************************************************)
Holders(k) == {i \in 1..Len(updates) : k \in DOMAIN updates[i]}

C1_StateIsMergeOfUpdates ==
    /\ DOMAIN state = DOMAIN initialState \cup UNION {DOMAIN updates[i] : i \in 1..Len(updates)}
    /\ \A k \in DOMAIN state :
          state[k] = IF Holders(k) = {} THEN initialState[k]
                     ELSE updates[MaxOf(Holders(k))][k]

\* two calls, the second a function updater, with a nested value replaced whole
C1_Witness ==
    /\ lastCall.op = "setState" /\ lastCall.updater = "increment"
    /\ Len(updates) = 2
    /\ "user" \in DOMAIN initialState /\ initialState["user"] = UserAnn
    /\ state["user"] = UserBob
    /\ state["count"] = 1

(***************************************************************************)
(* C2.  On a store without middleware a dispatch call leaves the state as  *)
(* it was (no listener calls setState here), and a step that changes the   *)
(* state is a setState call.                                               *)
(***************************************************************************)
C2_DispatchLeavesState ==
    [][/\ (DispatchStep /\ middleware = <<>>) => state' = state
       /\ state' # state => SetStateStep]_vars

\* a dispatch on a store without middleware that notified a listener, the
\* state being one an earlier setState produced
C2_Witness ==
    /\ lastCall.op = "dispatch" /\ middleware = <<>>
    /\ Len(ListenerEvents) > 0
    /\ Len(updates) > 0 /\ state # initialState

(***************************************************************************)
(* C3.  A setState call invokes every subscribed listener exactly once,    *)
(* with the new state and an action of type SET_STATE whose payload is the *)
(* partial update of the call (the updater's return value for a function   *)
(* updater).  A dispatch call that reaches the raw dispatch invokes every  *)
(* subscribed listener exactly once with the dispatched action (as         *)
(* stamped) and the current state.                                         *)
(***************************************************************************)
C3_EveryListenerNotifiedOnce ==
    /\ lastCall.op = "setState" =>
          /\ \A l \in Subscribed : TimesNotified(ListenerEvents, l) = 1
          /\ \A i \in 1..Len(ListenerEvents) :
                LET e == ListenerEvents[i]
                IN /\ e.who \in Subscribed
                   /\ e.action.type = "SET_STATE"
                   /\ e.action.timestamp \in Timestamps
                   /\ e.action.payload = IF lastCall.updater = "none" THEN lastCall.object
                                         ELSE "count" :> state["count"]
                   /\ e.action.payload = Last(updates)
                   /\ e.state = state
    /\ (lastCall.op = "dispatch" /\ \A i \in 1..Len(middleware) : Forwards(middleware[i])) =>
          /\ \A l \in Subscribed : TimesNotified(ListenerEvents, l) = 1
          /\ \A i \in 1..Len(ListenerEvents) :
                LET e == ListenerEvents[i]
                IN /\ e.who \in Subscribed
                   /\ e.action.type = lastCall.action.type
                   /\ e.action.payload = lastCall.action.payload
                   /\ e.action.timestamp \in Timestamps
                   /\ e.state = state

\* a function-updater setState with two listeners subscribed
C3_Witness ==
    /\ lastCall.op = "setState" /\ lastCall.updater = "increment"
    /\ Len(listeners) = 2
    /\ Len(ListenerEvents) = 2

(***************************************************************************)
(* C4.  A listener whose unsubscribe callable has been invoked (and that   *)
(* has not been subscribed again) is not in the listener set and is not    *)
(* notified by any later setState or dispatch call, while the listeners    *)
(* still subscribed are.                                                   *)
(***************************************************************************)
C4_NoNotificationAfterUnsubscribe ==
    /\ \A l \in cancelled :
          /\ l \notin Subscribed
          /\ TimesNotified(ListenerEvents, l) = 0
    /\ (IsStoreCall /\ (lastCall.op = "dispatch" => RawDispatchRan)) =>
          \A l \in Subscribed : TimesNotified(ListenerEvents, l) = 1

\* after L1 was unsubscribed, a dispatch notified L2 alone
C4_Witness ==
    /\ "L1" \in cancelled
    /\ listeners = <<"L2">>
    /\ lastCall.op = "dispatch"
    /\ Len(ListenerEvents) = 1 /\ ListenerEvents[1].who = "L2"

(***************************************************************************)
(* C5.  Whenever a public operation of the recorder has returned, the two  *)
(* histories have the same length, at most maxHistorySize, and entries at  *)
(* the same index come from the same record call: the pairs                *)
(* <<actionHistory[i], stateHistory[i]>> are consecutive record calls, in  *)
(* call order.                                                             *)
(***************************************************************************)
C5_HistoriesInLockStep ==
    LET n == Len(devTools.stateHistory)
    IN /\ Len(devTools.actionHistory) = n
       /\ n <= devTools.maxHistorySize
       /\ \E off \in 0..Len(recorded) :
             /\ off + n <= Len(recorded)
             /\ \A i \in 1..n :
                   recorded[off + i] = <<devTools.actionHistory[i], devTools.stateHistory[i]>>

\* the history is full at a bound of two, one entry having been evicted
C5_Witness ==
    /\ devTools.maxHistorySize = 2
    /\ Len(devTools.stateHistory) = 2
    /\ Len(recorded) - cleared = 3
    /\ lastCall.op = "record"

(***************************************************************************)
(* C6.  Eviction is FIFO.  As claimed: the stored history is exactly the   *)
(* most recent min(k, bound) entries recorded since the last clearHistory  *)
(* (k of them), in record order.                                           *)
(***************************************************************************)
SinceClear == Len(recorded) - cleared

\* the histories are the n most recent entries recorded, oldest first
IsMostRecent(n) ==
    /\ Len(devTools.stateHistory) = n
    /\ Len(devTools.actionHistory) = n
    /\ n <= SinceClear
    /\ \A i \in 1..n :
          recorded[Len(recorded) - n + i] = <<devTools.actionHistory[i], devTools.stateHistory[i]>>

C6_ExactlyMinOfCountAndBound == IsMostRecent(Min(SinceClear, devTools.maxHistorySize))

(***************************************************************************)
(* C6 as amended.  The stored history is exactly the most recent m entries *)
(* recorded since the last clearHistory, in record order (oldest at index  *)
(* 0), with m <= min(k, bound), and m = min(k, bound) as long as no        *)
(* setMaxHistorySize call has raised the bound since the last              *)
(* clearHistory; getStateAt(0) is the state of the latest record call      *)
(* whenever the history is not empty.                                      *)
(***************************************************************************)
C6_MostRecentEntriesKept ==
    /\ IsMostRecent(Len(devTools.stateHistory))
    /\ Len(devTools.stateHistory) <= Min(SinceClear, devTools.maxHistorySize)
    /\ ~raised => Len(devTools.stateHistory) = Min(SinceClear, devTools.maxHistorySize)
    /\ devTools.stateHistory # <<>> => GetStateAt(devTools, 0) = Last(recorded)[2]

\* three records at a bound of two: the oldest was evicted by record
C6_Witness ==
    /\ ~raised
    /\ lastCall.op = "record"
    /\ devTools.maxHistorySize = 2
    /\ SinceClear = 3
    /\ Len(devTools.stateHistory) = 2
    /\ GetStateAt(devTools, 0) = lastCall.object

(***************************************************************************)
(* C7.  With middleware [M1, ..., Mn], n >= 1, all of which call next, a   *)
(* dispatch runs the handlers of M1, ..., Mn in that order and then the    *)
(* raw dispatch; the history record and the listener notifications come    *)
(* after the last handler was entered.                                     *)
(***************************************************************************)
C7_MiddlewareInRegistrationOrder ==
    (/\ lastCall.op = "dispatch"
     /\ Len(middleware) >= 1
     /\ \A i \in 1..Len(middleware) : Forwards(middleware[i])) =>
        LET n == Len(middleware)
            steps == EventsOf({"middleware", "dispatch", "record", "listener"})
        IN /\ Len(steps) >= n + 1
           /\ \A i \in 1..n : steps[i].ev = "middleware" /\ steps[i].who = middleware[i]
           /\ steps[n + 1].ev = "dispatch"
           /\ \A i \in (n + 2)..Len(steps) : steps[i].ev \in {"record", "listener"}
           /\ Len(ListenerEvents) = Len(listeners)

\* three forwarding middleware, a recorder that is on and a listener
C7_Witness ==
    /\ lastCall.op = "dispatch"
    /\ middleware = <<"tap", "logger", "audit">>
    /\ Len(EventsOf({"record"})) = 1
    /\ Len(ListenerEvents) = 1

(***************************************************************************)
(* C8.  When a middleware Mi of the chain does not call next, a dispatch   *)
(* runs the handlers of M1, ..., Mi and nothing after them: no later       *)
(* middleware, no raw dispatch, no history entry, no listener              *)
(* notification, and the state is unchanged.                               *)
(***************************************************************************)
FirstBlocking == CHOOSE i \in 1..Len(middleware) :
                    /\ ~Forwards(middleware[i])
                    /\ \A j \in 1..(i - 1) : Forwards(middleware[j])

C8_BlockedDispatchHasNoEffect ==
    [][(DispatchStep /\ \E i \in 1..Len(middleware) : ~Forwards(middleware[i])) =>
          LET ran == SelectSeq(trace', LAMBDA e : e.ev = "middleware")
          IN /\ [i \in 1..Len(ran) |-> ran[i].who] = SubSeq(middleware, 1, FirstBlocking)
             /\ \A i \in 1..Len(trace') : trace'[i].ev \in {"middleware", "logAction"}
             /\ devTools' = devTools
             /\ recorded' = recorded
             /\ state' = state]_vars

\* the second middleware blocks: the first ran, the subscribed listener did not
C8_Witness ==
    /\ lastCall.op = "dispatch"
    /\ middleware = <<"audit", "block">>
    /\ devTools.enabled
    /\ Len(listeners) > 0
    /\ Len(EventsOf({"middleware"})) = 2
    /\ Len(ListenerEvents) = 0

(***************************************************************************)
(* C9.  A record call on a disabled recorder changes neither history and   *)
(* notifies no listener; disabling removes no entry; and a disabled        *)
(* recorder with an empty history (as one constructed disabled is) still   *)
(* has an empty history after any step that leaves it disabled.            *)
(***************************************************************************)
HistoryEmpty(dt) == dt.stateHistory = <<>> /\ dt.actionHistory = <<>>

C9_DisabledRecorderKeepsHistory ==
    [][/\ (RecordStep /\ ~devTools.enabled) =>
             /\ devTools' = devTools
             /\ trace' = <<>>
       /\ (devTools.enabled /\ ~devTools'.enabled) =>
             /\ GetStateHistory(devTools') = GetStateHistory(devTools)
             /\ GetActionHistory(devTools') = GetActionHistory(devTools)
       /\ (~devTools.enabled /\ ~devTools'.enabled /\ HistoryEmpty(devTools)) =>
             HistoryEmpty(devTools')]_vars

\* a record call dropped by a disabled recorder that holds history and a listener
C9_Witness ==
    /\ ~devTools.enabled
    /\ lastCall.op = "record"
    /\ trace = <<>>
    /\ Len(devTools.stateHistory) > 0
    /\ Len(devTools.listeners) > 0

(***************************************************************************)
(* C10.  A record call on an enabled recorder notifies every subscribed    *)
(* recorder listener exactly once with {type: "STATE_CHANGED", state,      *)
(* action} of that call, and does so after the append and the eviction:    *)
(* the history a listener reads is the history the call leaves.            *)
(***************************************************************************)
C10_RecordNotifiesAfterStoring ==
    (lastCall.op = "record" /\ devTools.enabled) =>
        LET told == EventsOf({"STATE_CHANGED"})
            all == {devTools.listeners[i] : i \in 1..Len(devTools.listeners)}
        IN /\ Len(EventsOf({"record"})) = 1
           /\ trace[1].ev = "record"
           /\ \A l \in all : TimesNotified(told, l) = 1
           /\ \A i \in 1..Len(told) :
                 /\ told[i].who \in all
                 /\ told[i].state = lastCall.object
                 /\ told[i].action = lastCall.action
                 /\ told[i].stateHistory = GetStateHistory(devTools)
                 /\ told[i].actionHistory = GetActionHistory(devTools)

\* a record call that evicted an entry and notified two listeners
C10_Witness ==
    /\ lastCall.op = "record" /\ devTools.enabled
    /\ Len(devTools.listeners) = 2
    /\ Len(EventsOf({"STATE_CHANGED"})) = 2
    /\ Len(devTools.stateHistory) = devTools.maxHistorySize
    /\ SinceClear > Len(devTools.stateHistory)

(***************************************************************************)
(* C11.  dispatch assigns action.timestamp the current time only if the    *)
(* action has none: an action dispatched with a timestamp already set is   *)
(* recorded and delivered to the listeners with that same timestamp, and   *)
(* an action dispatched without one is stamped with the current time.      *)
(***************************************************************************)
C11_TimestampKeptIfSet ==
    (lastCall.op = "dispatch" /\ RawDispatchRan) =>
        \A i \in 1..Len(trace) :
            trace[i].ev \in {"record", "listener"} =>
                IF lastCall.action.timestamp # NoTimestamp
                THEN trace[i].action.timestamp = lastCall.action.timestamp
                ELSE trace[i].action.timestamp \in Timestamps

(***************************************************************************)
(* C15.  A dispatch of an action whose type is missing or empty is         *)
(* refused: nothing is appended to the history and no listener is          *)
(* notified, as they would be for a valid action.                          *)
(***************************************************************************)
C15_UntypedDispatchRefused ==
    (lastCall.op = "dispatch" /\ lastCall.action.type = "") =>
        EventsOf({"record", "listener"}) = <<>>

(***************************************************************************)
(* C13.  For every integer index, getStateAt(index) and getActionAt(index) *)
(* return the state and the action of the record call made index calls     *)
(* before the latest one (index 0: the latest; index length - 1: the       *)
(* oldest entry kept, at position 0 of the history) when                   *)
(* 0 <= index < length, and null when index < 0 or index >= length.        *)
(***************************************************************************)
Indices == (0 - 2)..(MaxRecords + 1)

C13_IndexCountsFromMostRecent ==
    LET n == Len(devTools.stateHistory)
    IN \A index \in Indices :
          IF 0 <= index /\ index < n
          THEN /\ GetStateAt(devTools, index) = recorded[Len(recorded) - index][2]
               /\ GetActionAt(devTools, index) = recorded[Len(recorded) - index][1]
               /\ index = n - 1 =>
                     /\ GetStateAt(devTools, index) = GetStateHistory(devTools)[1]
                     /\ GetActionAt(devTools, index) = GetActionHistory(devTools)[1]
          ELSE /\ GetStateAt(devTools, index) = Null
               /\ GetActionAt(devTools, index) = Null

\* two entries that differ in state and in action: index 0 is the later one
C13_Witness ==
    /\ Len(devTools.stateHistory) = 2
    /\ GetStateAt(devTools, 0) = lastCall.object
    /\ GetStateAt(devTools, 1) # GetStateAt(devTools, 0)
    /\ GetActionAt(devTools, 1) # GetActionAt(devTools, 0)
    /\ GetActionAt(devTools, 1) = GetActionHistory(devTools)[1]
    /\ GetStateAt(devTools, 2) = Null
    /\ GetStateAt(devTools, 0 - 1) = Null
    /\ lastCall.op = "record"

(***************************************************************************)
(* C14.  A store built with middleware differs from the raw store in       *)
(* dispatch alone.  A setState call on it never enters the pipeline: it    *)
(* merges into the one state, appends to the one history and notifies the  *)
(* one listener set (the listeners subscribed through the returned store), *)
(* exactly as on a store without middleware.  A dispatch call enters the   *)
(* first middleware when there is one and is the raw dispatch when the     *)
(* list is empty or absent.                                                *)
(***************************************************************************)
C14_OnlyDispatchIsWrapped ==
    [][/\ SetStateStep =>
             /\ \A i \in 1..Len(trace') : trace'[i].ev \in {"record", "listener"}
             /\ state' = ShallowMerge(state, Last(updates'))
             /\ devTools.enabled =>
                   /\ trace'[1].ev = "record"
                   /\ Last(devTools'.stateHistory) = state'
             /\ [i \in 1..Len(listeners) |-> "listener"] =
                   [i \in 1..Len(listeners) |->
                       trace'[i + (IF devTools.enabled THEN 1 ELSE 0)].ev]
             /\ listeners =
                   [i \in 1..Len(listeners) |->
                       trace'[i + (IF devTools.enabled THEN 1 ELSE 0)].who]
       /\ DispatchStep =>
             /\ middleware = <<>> => trace'[1].ev = "dispatch"
             /\ middleware # <<>> =>
                   trace'[1].ev = "middleware" /\ trace'[1].who = middleware[1]]_vars

\* a setState on a store with two middleware, the recorder on, one listener
C14_Witness ==
    /\ lastCall.op = "setState"
    /\ middleware = <<"logger", "audit">>
    /\ devTools.enabled
    /\ Len(listeners) = 1
    /\ Len(ListenerEvents) = 1
    /\ Len(trace) = 2

(***************************************************************************)
(* C17.  Within one setState or dispatch call on a store whose recorder is *)
(* enabled, the history append of the call's (action, state) pair comes    *)
(* before the first listener is invoked: every listener finds the pair at  *)
(* the end of the history.  For setState the state is replaced before      *)
(* both: the recorded state and the state a listener reads are the merged  *)
(* state, which holds the partial update.                                  *)
(***************************************************************************)
C17_RecordedBeforeNotified ==
    (/\ IsStoreCall
     /\ devTools.enabled
     /\ lastCall.op = "dispatch" => RawDispatchRan) =>
        \E r \in 1..Len(trace) :
            /\ trace[r].ev = "record"
            /\ \A i \in 1..Len(trace) :
                  trace[i].ev = "listener" =>
                     /\ r < i
                     /\ trace[i].action = trace[r].action
                     /\ Last(trace[i].actionHistory) = trace[r].action
                     /\ Last(trace[i].stateHistory) = trace[r].state
                     /\ trace[i].state = trace[r].state
            /\ lastCall.op = "setState" =>
                  /\ trace[r].state = state
                  /\ \A k \in DOMAIN Last(updates) : trace[r].state[k] = Last(updates)[k]

\* a function-updater setState, recorded and then delivered to two listeners
C17_Witness ==
    /\ lastCall.op = "setState" /\ lastCall.updater = "increment"
    /\ devTools.enabled
    /\ Len(trace) = 3
    /\ trace[1].ev = "record"
    /\ trace[2].ev = "listener" /\ trace[3].ev = "listener"
    /\ Len(trace[3].stateHistory) = 2

(***************************************************************************)
(* C12.  As claimed: the first call of an unsubscribe callable removes     *)
(* exactly the listener it was created for and no other, and any later     *)
(* call of the same callable leaves the listener set unchanged, whatever   *)
(* subscribe and unsubscribe calls happened in between.                    *)
(***************************************************************************)
UnsubscribeStep == lastCall'.op = "unsubscribe"
RecorderSubscribed == {devTools.listeners[i] : i \in 1..Len(devTools.listeners)}

\* the call removes the listener of the callable, and no other
RemovesItsListener ==
    LET u == called'
    IN /\ u.of = "store" =>
             /\ {listeners'[i] : i \in 1..Len(listeners')} = Subscribed \ {u.given}
             /\ Len(listeners') = Cardinality(Subscribed \ {u.given})
             /\ devTools' = devTools
       /\ (u.of = "devTools" /\ u.live) =>
             /\ {devTools'.listeners[i] : i \in 1..Len(devTools'.listeners)} =
                   RecorderSubscribed \ {u.given}
             /\ Len(devTools'.listeners) = Cardinality(RecorderSubscribed \ {u.given})
             /\ listeners' = listeners

C12_LaterCallChangesNothing ==
    [][UnsubscribeStep =>
          /\ RemovesItsListener
          /\ called' \in used =>
                listeners' = listeners /\ devTools'.listeners = devTools.listeners]_vars

(***************************************************************************)
(* C12 as amended.  A call of an unsubscribe callable removes exactly the  *)
(* listener it was created for and no other; a later call of the same      *)
(* callable leaves the listener set unchanged unless that listener has     *)
(* been subscribed again since (the callable deletes by listener           *)
(* identity, so it then removes the listener again).                       *)
(***************************************************************************)
C12_UnsubscribeIsIdempotent ==
    [][UnsubscribeStep =>
          /\ RemovesItsListener
          /\ (called' \in used /\ called'.given \in cancelled) =>
                listeners' = listeners /\ devTools'.listeners = devTools.listeners]_vars

\* the first callable was called again after another callable had been,
\* while a third listener stayed subscribed
C12_Witness ==
    /\ lastCall.op = "unsubscribe"
    /\ called.serial = 1
    /\ \E u \in used : u.serial = 2 /\ u.given # called.given
    /\ called.given \in cancelled
    /\ Len(listeners) + Len(devTools.listeners) = 1

(***************************************************************************)
(* C16.  A listener passed to the recorder's subscribe while the recorder  *)
(* is disabled (and never while it is enabled) is not registered: no later *)
(* record call notifies it, also after setEnabled(true), and the callable  *)
(* returned for it changes nothing when called.                            *)
(***************************************************************************)
HandlesOf(live) == {u \in unsubscribers : u.of = "devTools" /\ u.live = live}
\* the listeners subscribed while the recorder was disabled, and only then
Declined == {u.given : u \in HandlesOf(FALSE)} \ {u.given : u \in HandlesOf(TRUE)}

C16_DisabledSubscribeIsDropped ==
    [][/\ \A l \in Declined' :
             /\ \A i \in 1..Len(devTools'.listeners) : devTools'.listeners[i] # l
             /\ \A i \in 1..Len(trace') : trace'[i].who # l
       /\ (UnsubscribeStep /\ ~called'.live) =>
             devTools' = devTools /\ listeners' = listeners]_vars

\* D1 was subscribed while the recorder was off and its callable was called;
\* the recorder is on again and a record call has notified D2 alone
C16_Witness ==
    /\ Declined = {"D1"}
    /\ \E u \in used : ~u.live /\ u.given = "D1"
    /\ devTools.enabled
    /\ lastCall.op = "record"
    /\ Len(trace) = 2 /\ trace[2].ev = "STATE_CHANGED" /\ trace[2].who = "D2"

(***************************************************************************)
(* C18.  As claimed: the effects of distinct setState/dispatch calls are   *)
(* fully sequential, also when a listener calls setState during its        *)
(* notification: between two effects (history append, notification) of one *)
(* call there is no effect of another call, and every listener receives    *)
(* the actions in the order in which they were appended to the history.    *)
(***************************************************************************)
Effects == EventsOf({"record", "listener"})
\* the place of the append of action a among the effects of the last call
AppendOf(a) == CHOOSE r \in 1..Len(Effects) : Effects[r].ev = "record" /\ Effects[r].action = a

C18_CallsFullySequential ==
    IsStoreCall =>
        /\ \A i, j, k \in 1..Len(Effects) :
              (i < j /\ j < k /\ Effects[i].action = Effects[k].action) =>
                 Effects[j].action = Effects[i].action
        /\ devTools.enabled =>
              \A i, j \in 1..Len(Effects) :
                 (/\ i < j
                  /\ Effects[i].ev = "listener" /\ Effects[j].ev = "listener"
                  /\ Effects[i].who = Effects[j].who) =>
                     AppendOf(Effects[i].action) <= AppendOf(Effects[j].action)

(***************************************************************************)
(* C18 as amended.  A call made from outside any notification has all its  *)
(* effects before the next such call starts.  A setState or dispatch call  *)
(* that a listener makes during its notification is not queued: it runs to *)
(* completion there, so its history append and all its notifications come, *)
(* without interruption, after the outer call's append and the invocation  *)
(* of the listener that made it, and before the outer call's remaining     *)
(* notifications; the listeners invoked later in the outer pass receive    *)
(* the inner action before the outer one.  Each call's append still comes  *)
(* before that call's notifications.                                       *)
(***************************************************************************)
C18_NestedCallsRunToCompletion ==
    (IsStoreCall /\ Effects # <<>>) =>
        LET outer == Effects[1].action
            inner == {i \in 1..Len(Effects) : Effects[i].action # outer}
        IN /\ devTools.enabled => Effects[1].ev = "record"
           /\ \A i \in 1..Len(Effects) :
                 Effects[i].ev = "record" => (i = 1 \/ i \in inner)
           /\ inner # {} =>
                 LET first == CHOOSE i \in inner : \A j \in inner : i <= j
                     last == CHOOSE i \in inner : \A j \in inner : j <= i
                 IN /\ inner = first..last
                    /\ \A i \in inner : Effects[i].action = Effects[first].action
                    /\ first > 1
                    /\ Effects[first - 1].ev = "listener"
                    /\ Effects[first - 1].who = "setter"
                    /\ devTools.enabled =>
                          /\ Effects[first].ev = "record"
                          /\ \A i \in (first + 1)..last : Effects[i].ev = "listener"
                          /\ Len(recorded) >= 2
                          /\ recorded[Len(recorded) - 1][1] = outer
                          /\ recorded[Len(recorded)][1] = Effects[first].action

\* setter calls setState while it is notified of a setState; L2, subscribed
\* after it, then receives the inner action before the outer one
C18_Witness ==
    /\ lastCall.op = "setState"
    /\ devTools.enabled
    /\ listeners = <<"setter", "L2">>
    /\ Len(Effects) = 6
    /\ Effects[5].who = "L2" /\ Effects[6].who = "L2"
    /\ Effects[5].action.payload = "count" :> 2
    /\ Effects[6].action.payload = "count" :> 1
    /\ state["count"] = 2

(***************************************************************************)
(* C19.  As claimed: every listener invoked by a setState call receives as *)
(* its state argument the value next of that same call, the state recorded *)
(* in the history next to the call's SET_STATE action, also after another  *)
(* listener of the same call has re-entrantly called setState.             *)
(***************************************************************************)
HoldsPartial(st, action) ==
    /\ DOMAIN st = DOMAIN initialState \cup DOMAIN action.payload
    /\ \A k \in DOMAIN action.payload : st[k] = action.payload[k]

C19_ListenersReceiveNext ==
    IsStoreCall =>
        \A i \in 1..Len(Effects) :
            (Effects[i].ev = "listener" /\ Effects[i].action.type = "SET_STATE") =>
               /\ HoldsPartial(Effects[i].state, Effects[i].action)
               /\ devTools.enabled =>
                     Effects[i].state = Effects[AppendOf(Effects[i].action)].state

(***************************************************************************)
(* C19 as amended.  The state recorded in the history next to a setState   *)
(* call's SET_STATE action is the value next = shallowMerge(current,       *)
(* partial) of that call.  Every listener is invoked with the store's      *)
(* state as it is at that moment: next of the call that notifies it,       *)
(* unless an earlier listener of the same pass has re-entrantly called     *)
(* setState, in which case it is the state the latest setState left (the   *)
(* one recorded last), delivered with the outer call's action.             *)
(***************************************************************************)
\* the latest history append before the i-th effect
AppendBefore(i) ==
    CHOOSE r \in 1..(i - 1) :
        /\ Effects[r].ev = "record"
        /\ \A q \in (r + 1)..(i - 1) : Effects[q].ev # "record"

C19_ListenersReceiveLatestState ==
    IsStoreCall =>
        \A i \in 1..Len(Effects) :
            /\ (Effects[i].ev = "record" /\ Effects[i].action.type = "SET_STATE") =>
                  HoldsPartial(Effects[i].state, Effects[i].action)
            /\ Effects[i].ev = "listener" =>
                  /\ DOMAIN Effects[i].state = DOMAIN state
                  /\ devTools.enabled => Effects[i].state = Effects[AppendBefore(i)].state
                  /\ (/\ Effects[i].action.type = "SET_STATE"
                      /\ \A q \in 1..i : Effects[q].action = Effects[i].action) =>
                         HoldsPartial(Effects[i].state, Effects[i].action)
                  /\ (\A q \in i..Len(Effects) : Effects[q].action = Effects[i].action) =>
                         Effects[i].state = state

\* L2 is notified of setState({ count: 1 }) with the state { count: 2 } that
\* setter's nested call left
C19_Witness ==
    /\ lastCall.op = "setState"
    /\ listeners = <<"setter", "L2">>
    /\ Len(Effects) > 0
    /\ Last(Effects).who = "L2"
    /\ Last(Effects).action.payload = "count" :> 1
    /\ Last(Effects).state["count"] = 2
    /\ Last(Effects).state["user"] = UserAnn

(***************************************************************************)
(* C20.  When a listener, during its notification, unsubscribes itself or  *)
(* another listener, every notification pass still invokes each listener   *)
(* that remains subscribed exactly once, no listener twice, and a listener *)
(* unsubscribed before its turn is not invoked: leaver is never invoked    *)
(* again once it has left, L2 never once remover has been invoked.         *)
(***************************************************************************)
\* the passes of the last call, each named by the action it delivers
Passes == {ListenerEvents[i].action : i \in 1..Len(ListenerEvents)}
\* how many times the pass of action a invoked listener l
TimesInvoked(a, l) ==
    Cardinality({i \in 1..Len(ListenerEvents) :
                    ListenerEvents[i].action = a /\ ListenerEvents[i].who = l})

C20_UnsubscribeDuringNotification ==
    IsStoreCall =>
        /\ \A l \in Subscribed :
              /\ TimesNotified(ListenerEvents, l) >= 1
              /\ \A a \in Passes : TimesInvoked(a, l) = 1
        /\ \A l \in ListenerPool : \A a \in Passes : TimesInvoked(a, l) <= 1
        /\ TimesNotified(ListenerEvents, "leaver") <= 1
        /\ TimesNotified(ListenerEvents, "leaver") = 1 => "leaver" \notin Subscribed
        /\ TimesNotified(ListenerEvents, "remover") >= 1 => "L2" \notin Subscribed
        /\ \A i, j \in 1..Len(ListenerEvents) :
              (i < j /\ ListenerEvents[i].who = "remover") => ListenerEvents[j].who # "L2"

\* leaver, subscribed first, unsubscribed itself; L2 and remover were still
\* invoked, and remover unsubscribed L2 after L2's turn
C20_Witness ==
    /\ IsStoreCall
    /\ listeners = <<"remover">>
    /\ Len(ListenerEvents) = 3
    /\ ListenerEvents[1].who = "leaver"
    /\ ListenerEvents[2].who = "L2"
    /\ ListenerEvents[3].who = "remover"

(***************************************************************************)
(* C26.  Store subscriptions are keyed by listener identity: a listener    *)
(* subscribed twice is registered once and invoked once per notification   *)
(* pass; a call of either callable returned for it removes it entirely,    *)
(* and it then receives no notification, although the other callable was   *)
(* never called.                                                           *)
(***************************************************************************)
C26_KeyedByListenerIdentity ==
    /\ Len(listeners) = Cardinality(Subscribed)
    /\ IsStoreCall =>
          \A l \in Subscribed : \A a \in Passes : TimesInvoked(a, l) = 1
    /\ (lastCall.op = "unsubscribe" /\ called.of = "store") =>
          called.given \notin Subscribed
    /\ \A l \in cancelled :
          /\ l \notin Subscribed
          /\ TimesNotified(ListenerEvents, l) = 0

\* L2 was subscribed twice and one of its two callables was called; a
\* setState then notified setter alone
C26_Witness ==
    /\ \E u, v \in unsubscribers :
          /\ u.given = "L2" /\ v.given = "L2" /\ u.serial # v.serial
          /\ u \in used /\ v \notin used
    /\ "L2" \in cancelled
    /\ listeners = <<"setter">>
    /\ lastCall.op = "setState"
    /\ Len(ListenerEvents) >= 1
    /\ \A i \in 1..Len(ListenerEvents) : ListenerEvents[i].who = "setter"

(***************************************************************************)
(* C23.  Every History Recorder operation terminates.  record ends after   *)
(* one append and at most one eviction.  setMaxHistorySize(n) returns for  *)
(* every integer n and every history: whenever its loop condition holds    *)
(* there is an entry to evict, so that every pass shortens the history and  *)
(* the condition fails after finitely many passes.                         *)
(***************************************************************************)
C23_OperationsTerminate ==
    /\ (eviction.pc = "while" /\ Len(devTools.stateHistory) > eviction.size) =>
          Len(devTools.stateHistory) > 0
    /\ lastCall.op = "record" => Len(EventsOf({"record"})) <= 1

(***************************************************************************)
(* C21.  A listener that throws during the notification of a setState      *)
(* ends the call there: the exception reaches the caller and the listeners *)
(* not yet invoked are not invoked.  The stored state is the fully merged  *)
(* next state, the history holds the entry of the call and its two arrays  *)
(* have equal lengths; the setState and dispatch calls that follow behave  *)
(* as they always do.                                                      *)
(***************************************************************************)
\* the last call was left by an exception
Threw == trace # <<>> /\ Last(trace).ev = "throw"
\* setter was delivered count = 1 and called setState({ count: 2 })
NestedSetState(events) ==
    \E i \in 1..Len(events) :
        /\ events[i].ev = "listener" /\ events[i].who = "setter"
        /\ events[i].state["count"] = 1
\* the state and the history after a call that assigned st at its top level
SoundAfter(st) ==
    LET next == IF NestedSetState(trace') THEN ShallowMerge(st, "count" :> 2) ELSE st
        grown == IF NestedSetState(trace') THEN 2 ELSE 1
        throws == {i \in 1..Len(trace') : trace'[i].ev = "throw"}
    IN /\ state' = next
       /\ devTools.enabled =>
             /\ Len(devTools'.stateHistory) = Len(devTools.stateHistory) + grown
             /\ Len(devTools'.actionHistory) = Len(devTools'.stateHistory)
             /\ Last(devTools'.stateHistory) = next
       /\ ~devTools.enabled => devTools' = devTools
       /\ throws # {} => throws = {Len(trace')}
       /\ throws = {} =>
             \A l \in Subscribed : \E i \in 1..Len(trace') :
                 trace'[i].ev = "listener" /\ trace'[i].who = l

C21_ListenerFaultLeavesStoreSound ==
    [][/\ SetStateStep => /\ SoundAfter(ShallowMerge(state, Last(updates')))
                          /\ devTools.enabled =>
                                Last(devTools'.actionHistory).type = "SET_STATE"
       /\ DispatchStep => SoundAfter(state)]_vars

\* the second call, a setState, was left by the exception of thrower: L2 had
\* been invoked, setter had not, the state is merged and recorded
C21_Witness ==
    /\ calls = 2
    /\ lastCall.op = "setState"
    /\ Threw
    /\ listeners = <<"L2", "thrower", "setter">>
    /\ [i \in 1..Len(ListenerEvents) |-> ListenerEvents[i].who] = <<"L2", "thrower">>
    /\ state["count"] = 1
    /\ devTools.enabled
    /\ Len(devTools.stateHistory) = 2
    /\ Last(devTools.stateHistory) = state

(***************************************************************************)
(* C22.  An Action is immutable once recorded: every entry of the action   *)
(* history keeps the type, payload and timestamp it had when it was        *)
(* recorded, whatever setState and dispatch calls follow, a dispatch of    *)
(* the same action object included.                                        *)
(***************************************************************************)
C22_RecordedActionsImmutable ==
    devTools.enabled =>
        /\ Len(devTools.actionHistory) = Len(recorded)
        /\ \A i \in 1..Len(recorded) :
              /\ devTools.actionHistory[i].type = recorded[i][1].type
              /\ devTools.actionHistory[i].payload = recorded[i][1].payload
              /\ devTools.actionHistory[i].timestamp = recorded[i][1].timestamp

(***************************************************************************)
(* C24.  The middleware chain is composed once: building the store calls   *)
(* each middleware(store, next) exactly once, a dispatch calls none of     *)
(* them again, only the handlers they returned, so that what a handler     *)
(* keeps in its closure persists from one dispatched action to the next.   *)
(***************************************************************************)
\* the middleware the last call entered
Entered(events) == {events[i].who : i \in {j \in 1..Len(events) : events[j].ev = "middleware"}}

C24_ChainComposedOnce ==
    [][/\ \A m \in DOMAIN closures : closures'[m].made = 1
       /\ DispatchStep =>
             /\ \A m \in DOMAIN closures : closures'[m].made = closures[m].made
             /\ "counter" \in Entered(trace') =>
                   closures'["counter"].seen = closures["counter"].seen + 1]_vars

(***************************************************************************)
(* C25.  The store handed to a middleware is the raw store: a              *)
(* store.dispatch(action) made inside a middleware runs the raw dispatch,  *)
(* once (one history record, one notification pass), enters no middleware  *)
(* and so cannot recurse.                                                  *)
(***************************************************************************)
\* the positions of the events of the given kinds in the trace of the step
At(kinds) == {i \in 1..Len(trace') : trace'[i].ev \in kinds}

C25_MiddlewareHoldsRawStore ==
    [][(DispatchStep /\ "direct" \in Entered(trace')) =>
          LET inside == CHOOSE i \in At({"middleware"}) : trace'[i].who = "direct"
          IN /\ Cardinality({i \in At({"middleware"}) : trace'[i].who = "direct"}) = 1
             /\ \A i \in At({"middleware"}) : i <= inside
             /\ At({"dispatch"}) = {inside + 1}
             /\ Cardinality(At({"record"})) = IF devTools.enabled THEN 1 ELSE 0
             /\ Len(devTools'.actionHistory) =
                   Len(devTools.actionHistory) + IF devTools.enabled THEN 1 ELSE 0
             /\ \A l \in Subscribed :
                   Cardinality({i \in At({"listener"}) : trace'[i].who = l}) = 1
             /\ state' = state]_vars

\* audit forwarded to direct, which called store.dispatch: the raw dispatch
\* recorded and notified L1, and tap was not entered
C25_Witness ==
    /\ lastCall.op = "dispatch"
    /\ middleware = <<"audit", "direct", "tap">>
    /\ devTools.enabled
    /\ listeners = <<"L1">>
    /\ [i \in 1..Len(trace) |-> trace[i].ev] =
          <<"middleware", "middleware", "dispatch", "record", "listener">>
    /\ trace[2].who = "direct"

=============================================================================
